---- MODULE Spec2Model ----
(***************************************************************************)
(* Rice coder (src/src/lib.rs): the bit writer and encoder of RiceCoder<K>,*)
(* the decoder, the percentile estimator of k and the coder factory.       *)
(*                                                                         *)
(* Machine integers are bit vectors: a u32 is a sequence of 32 bits and a  *)
(* u64 a sequence of 64 bits, most significant bit first, so that shifts   *)
(* lose the bits the hardware loses.  A byte (u8) is a number in 0..255.   *)
(***************************************************************************)
EXTENDS Integers, Sequences, FiniteSets, TLC

VARIABLES
    K,            \* the const generic parameter of RiceCoder<K>
    buffer,       \* RiceCoder.buffer: u64
    buffer_len,   \* RiceCoder.buffer_len: u8
    output,       \* the caller's output: Vec<u8>
    max_pending,  \* history: the largest buffer_len + num_bits any call of
                  \* write_bits_to_buffer has seen on this coder
    values,       \* the argument of the last encode_vals / encode / estimate
    input,        \* the argument of the last decode
    decoded,      \* the vector the last decode returned
    op,           \* the last operation that ran
    prev_op,      \* the operation before it
    panic,        \* "none", or the panic that ended the program
    ops,          \* number of operations run on the coder
    batches,      \* number of encode_vals calls among them
    estimate,     \* the last estimate_optimal_k call, if any: its percentile,
                  \* its local percentile_index and its result k
    prev_estimate, \* the call before it, if any
    coder         \* what create_rice_coder(k) returned: the k of the coder

vars == <<K, buffer, buffer_len, output, max_pending, values, input, decoded,
          op, prev_op, panic, ops, batches, estimate, prev_estimate, coder>>

coder_vars == <<buffer, buffer_len, output, max_pending, ops, batches>>
est_vars == <<estimate, prev_estimate, coder>>

(***************************************************************************)
(* Bit vectors.                                                            *)
(***************************************************************************)
\* A function on 1..n as a sequence (the concatenation has TLC build the
\* sequence once instead of evaluating the function at every use).
AsSeq(f) == f \o <<>>

Zeros(n) == AsSeq([i \in 1..n |-> 0])
Ones(n) == AsSeq([i \in 1..n |-> 1])

Max(a, b) == IF a >= b THEN a ELSE b
Min(a, b) == IF a <= b THEN a ELSE b

Pow2(n) == 2 ^ n

\* The w low bits of the number n (0 <= n < 2^31), most significant first.
BitsOf(n, w) ==
    AsSeq([i \in 1..w |-> IF w - i >= 31 THEN 0 ELSE (n \div Pow2(w - i)) % 2])

\* The number the first i bits of a bit vector hold (below 2^31 here).
RECURSIVE ToNatUpTo(_, _)
ToNatUpTo(b, i) == IF i = 0 THEN 0 ELSE 2 * ToNatUpTo(b, i - 1) + b[i]

ToNat(b) == ToNatUpTo(b, Len(b))

BitOr(a, b) ==
    AsSeq([i \in 1..Len(a) |-> IF a[i] = 1 \/ b[i] = 1 THEN 1 ELSE 0])
BitAnd(a, b) ==
    AsSeq([i \in 1..Len(a) |-> IF a[i] = 1 /\ b[i] = 1 THEN 1 ELSE 0])

\* x << n and x >> n on a fixed width: the bits shifted out are lost.
Shl(x, n) == SubSeq(x, n + 1, Len(x)) \o Zeros(n)
Shr(x, n) == Zeros(n) \o SubSeq(x, 1, Len(x) - n)

\* (1 << n) - 1 on width w, for n < w.
LowMask(w, n) == Zeros(w - n) \o Ones(n)

\* `value as u64` of a u32, and `x as u8` of a u64.
AsU64(x) == Zeros(32) \o x
AsU8(x) == ToNat(SubSeq(x, 57, 64))

\* a + b + c of two bit vectors of one width and a carry c: the sum's bits
\* and the carry out.  The low half is added before the high half, which
\* keeps the evaluation shallow.
RECURSIVE AddCarry(_, _, _)
AddCarry(a, b, c) ==
    IF a = <<>> THEN [bits |-> <<>>, carry |-> c]
    ELSE IF Len(a) = 1
    THEN LET t == a[1] + b[1] + c
         IN  [bits |-> <<t % 2>>, carry |-> t \div 2]
    ELSE LET n == Len(a)
             h == n \div 2
             low == AddCarry(SubSeq(a, h + 1, n), SubSeq(b, h + 1, n), c)
         IN  CASE low.carry >= 0 ->
                 LET high == AddCarry(SubSeq(a, 1, h), SubSeq(b, 1, h), low.carry)
                 IN  [bits |-> high.bits \o low.bits, carry |-> high.carry]

\* Wrapping addition: the carry out of the top bit is lost.
WrappingAdd(a, b) == AddCarry(a, b, 0).bits

U32(n) == BitsOf(n, 32)
Zero64 == Zeros(64)

(***************************************************************************)
(* RiceCoder<K>: the bit writer.  A writer state s is a record of the      *)
(* coder's fields, the output vector and the history max_pending.          *)
(***************************************************************************)
CountLimit == 256

RECURSIVE flush_buffer(_)
flush_buffer(s) ==
    IF s.buffer_len >= 8
    THEN LET byte == AsU8(Shr(s.buffer, s.buffer_len - 8))
             len == s.buffer_len - 8
         IN  flush_buffer([s EXCEPT !.output = Append(@, byte),
                                    !.buffer_len = len,
                                    !.buffer = BitAnd(@, LowMask(64, len))])
    ELSE s

write_bits_to_buffer(s, value, num_bits) ==
    [s EXCEPT !.buffer = BitOr(Shl(@, num_bits), AsU64(value)),
              !.buffer_len = @ + num_bits,
              !.max_pending = Max(@, s.buffer_len + num_bits)]

\* while remaining >= 32 { write thirty-two 1s; remaining -= 32; flush }
RECURSIVE WriteBlocks(_, _)
WriteBlocks(s, remaining) ==
    IF remaining >= 32
    THEN WriteBlocks(flush_buffer(write_bits_to_buffer(s, Ones(32), 32)),
                     remaining - 32)
    ELSE [st |-> s, remaining |-> remaining]

encode(s, value, k) ==
    LET quotient == ToNat(Shr(value, k))
        remainder == BitAnd(value, LowMask(32, k))
        blocks == WriteBlocks(s, quotient)
        remaining == blocks.remaining
        s1 == blocks.st
        s2 == IF remaining > 0
              THEN write_bits_to_buffer(s1, LowMask(32, remaining), remaining)
              ELSE s1
        s3 == write_bits_to_buffer(s2, U32(0), 1)
        s4 == write_bits_to_buffer(s3, remainder, k)
    IN  flush_buffer(s4)

\* finalize without its buffer_len > 0 test.
finalize_unguarded(s) ==
    flush_buffer(write_bits_to_buffer(s, U32(0), 8 - s.buffer_len))

finalize(s) ==
    IF s.buffer_len > 0
    THEN flush_buffer(write_bits_to_buffer(s, U32(0), 8 - s.buffer_len))
    ELSE s

\* for value in values { self.encode(*value, output) }, over values[lo..hi].
\* The range is halved and the first half is evaluated before the second
\* (the CASE guard reads it), which keeps the evaluation shallow.
RECURSIVE EncodeRange(_, _, _, _, _)
EncodeRange(s, vals, lo, hi, k) ==
    IF lo > hi THEN s
    ELSE IF lo = hi THEN encode(s, vals[lo], k)
    ELSE LET mid == (lo + hi) \div 2
             first == EncodeRange(s, vals, lo, mid, k)
         IN  CASE first.buffer_len >= 0 -> EncodeRange(first, vals, mid + 1, hi, k)

EncodeAll(s, vals, k) == EncodeRange(s, vals, 1, Len(vals), k)

\* encode_vals without output.push(values.len() as u8).
encode_vals_uncounted(s, vals, k) == finalize(EncodeAll(s, vals, k))

\* encode_vals past its assertion: the count byte, the codewords, finalize.
encode_vals(s, vals, k) ==
    finalize(EncodeAll([s EXCEPT !.output = Append(@, Len(vals) % 256)], vals, k))

(***************************************************************************)
(* RiceCoder<K>::decode.  byte_pos and bit_pos are 0-based as in the       *)
(* source; a reader position is the record [byte_pos, bit_pos].            *)
(***************************************************************************)
None == [some |-> FALSE]

\* Option<bool> with the advanced position.
read_bit(inp, pos) ==
    IF pos.byte_pos >= Len(inp)
    THEN None
    ELSE LET bit == (inp[pos.byte_pos + 1] \div Pow2(7 - pos.bit_pos)) % 2
             nb == (pos.bit_pos + 1) % 8
         IN  [some |-> TRUE, bit |-> bit,
              pos |-> [byte_pos |-> IF nb = 0 THEN pos.byte_pos + 1
                                    ELSE pos.byte_pos,
                       bit_pos |-> nb]]

\* for _ in 0..num_bits { value = (value << 1) | bit }, None on exhaustion.
RECURSIVE ReadBitsFrom(_, _, _, _)
ReadBitsFrom(inp, num_bits, pos, value) ==
    IF num_bits = 0
    THEN [some |-> TRUE, value |-> value, pos |-> pos]
    ELSE LET r == read_bit(inp, pos)
         IN  IF r.some
             THEN ReadBitsFrom(inp, num_bits - 1, r.pos,
                               Append(Tail(value), r.bit))
             ELSE None

read_bits(inp, num_bits, pos) == ReadBitsFrom(inp, num_bits, pos, U32(0))

\* while let Some(bit) = read_bit(..) { if bit { quotient += 1 } else { break } }
RECURSIVE ReadUnary(_, _, _)
ReadUnary(inp, pos, quotient) ==
    LET r == read_bit(inp, pos)
    IN  IF r.some /\ r.bit = 1
        THEN ReadUnary(inp, r.pos, quotient + 1)
        ELSE [quotient |-> quotient, pos |-> IF r.some THEN r.pos ELSE pos]

\* while byte_pos < input.len() && results.len() < total_values { .. }
RECURSIVE DecodeLoop(_, _, _, _, _)
DecodeLoop(inp, total_values, pos, results, k) ==
    IF pos.byte_pos < Len(inp) /\ Len(results) < total_values
    THEN LET u == ReadUnary(inp, pos, 0)
             r == read_bits(inp, k, u.pos)
         IN  IF r.some
             THEN DecodeLoop(inp, total_values, r.pos,
                             Append(results,
                                    WrappingAdd(Shl(U32(u.quotient), k), r.value)),
                             k)
             ELSE results
    ELSE results

\* decode: input[0] panics on an empty slice.
decode(inp, k) ==
    IF Len(inp) = 0
    THEN [panic |-> "index out of bounds", results |-> <<>>]
    ELSE [panic |-> "none",
          results |-> DecodeLoop(Tail(inp), inp[1], [byte_pos |-> 0, bit_pos |-> 0],
                                 <<>>, k)]

(***************************************************************************)
(* f64 arithmetic of estimate_optimal_k.  A positive finite f64 is the     *)
(* record [m, e]: m its 53 significand bits (the first is 1) read as an    *)
(* integer, and the value is m * 2^e.  Every operation rounds its exact    *)
(* result to 53 bits, to nearest, ties to the even significand.            *)
(***************************************************************************)
Significand == 53

\* The significand bits `bits` with exponent e, rounded up by one unit in
\* the last place when up holds.
F64Pack(bits, e, up) ==
    IF ~up THEN [m |-> bits, e |-> e]
    ELSE IF bits = Ones(Significand)
         THEN [m |-> <<1>> \o Zeros(Significand - 1), e |-> e + 1]
         ELSE [m |-> WrappingAdd(bits, BitsOf(1, Significand)), e |-> e]

\* num / den * 2^x scaled so that den <= num < 2 * den.
RECURSIVE Normalize(_, _, _)
Normalize(num, den, x) ==
    IF num < den THEN Normalize(2 * num, den, x - 1)
    ELSE IF num >= 2 * den THEN Normalize(num, 2 * den, x + 1)
    ELSE [num |-> num, den |-> den, x |-> x]

\* Long division: the next n bits of r / den for r < 2 * den, and what is
\* left, doubled.  The digits are produced in two halves, the first
\* evaluated before the second, which keeps the evaluation shallow.
RECURSIVE DivBits(_, _, _)
DivBits(r, den, n) ==
    IF n = 0 THEN [bits |-> <<>>, r |-> r]
    ELSE IF n = 1
    THEN LET b == IF r >= den THEN 1 ELSE 0
         IN  [bits |-> <<b>>, r |-> 2 * (r - b * den)]
    ELSE LET first == DivBits(r, den, n \div 2)
         IN  CASE first.r >= 0 ->
                 LET rest == DivBits(first.r, den, n - (n \div 2))
                 IN  [bits |-> first.bits \o rest.bits, r |-> rest.r]

\* The f64 quotient p / d of two positive integers (each exact as an f64).
F64Div(p, d) ==
    LET n == Normalize(p, d, 0)
        q == DivBits(n.num, n.den, Significand)
        up == q.r > n.den \/ (q.r = n.den /\ q.bits[Significand] = 1)
    IN  F64Pack(q.bits, n.x - (Significand - 1), up)

\* bits * n + carry, digit by digit from the last: the product's low
\* Len(bits) bits and the carry out of them.  Two halves, as in DivBits.
RECURSIVE MulCarry(_, _, _)
MulCarry(bits, n, carry) ==
    IF bits = <<>> THEN [bits |-> <<>>, carry |-> carry]
    ELSE IF Len(bits) = 1
    THEN LET t == bits[1] * n + carry
         IN  [bits |-> <<t % 2>>, carry |-> t \div 2]
    ELSE LET len == Len(bits)
             low == MulCarry(SubSeq(bits, (len \div 2) + 1, len), n, carry)
         IN  CASE low.carry >= 0 ->
                 LET high == MulCarry(SubSeq(bits, 1, len \div 2), n, low.carry)
                 IN  [bits |-> high.bits \o low.bits, carry |-> high.carry]

\* bits * n as a bit vector, 31 bits longer than bits.
MulBits(bits, n) ==
    LET p == MulCarry(bits, n, 0) IN BitsOf(p.carry, 31) \o p.bits

\* bits without its leading zeros (bits holds a 1).
StripZeros(bits) ==
    LET first == CHOOSE i \in 1..Len(bits) :
                     bits[i] = 1 /\ \A j \in 1..(i - 1) : bits[j] = 0
    IN  SubSeq(bits, first, Len(bits))

\* The f64 product x * n of an f64 and a positive integer (exact as an f64).
F64MulInt(x, n) ==
    LET prod == StripZeros(MulBits(x.m, n))
        d == Len(prod) - Significand
        up == /\ d > 0
              /\ prod[Significand + 1] = 1
              /\ \/ prod[Significand] = 1
                 \/ \E i \in (Significand + 2)..Len(prod) : prod[i] = 1
    IN  F64Pack(SubSeq(prod, 1, Significand), x.e + d, up)

\* min(x.round() as usize, cap) for cap < 2^30: round is to nearest, halves
\* away from zero.
F64RoundMin(x, cap) ==
    LET ibits == Significand + x.e
    IN  IF ibits > 30 THEN cap
        ELSE LET int == IF ibits >= 1 THEN ToNat(SubSeq(x.m, 1, ibits)) ELSE 0
                 half == IF ibits >= 0 THEN x.m[ibits + 1] ELSE 0
             IN  Min(int + half, cap)

(***************************************************************************)
(* estimate_optimal_k and create_rice_coder.  The percentile is an f64     *)
(* holding the integer p.                                                  *)
(***************************************************************************)
\* A u32 as the pair of its 16-bit halves, and a < b on such pairs.
Halves(v) == <<ToNat(SubSeq(v, 1, 16)), ToNat(SubSeq(v, 17, 32))>>
LtU32(a, b) == a[1] < b[1] \/ (a[1] = b[1] /\ a[2] < b[2])

\* estimate_optimal_k without the call of sort_unstable.
sort_unstable_skipped(vals) == vals

\* sorted_values.sort_unstable(): the values in ascending order.  The value
\* at index j goes to the place given by the number of values that sort
\* before it (equal values keep their order, which no u32 can show).
sort_unstable(vals) ==
    LET n == Len(vals)
        key == AsSeq([j \in 1..n |-> Halves(vals[j])])
        place == AsSeq([j \in 1..n |->
                     Cardinality({l \in 1..n : \/ LtU32(key[l], key[j])
                                               \/ key[l] = key[j] /\ l <= j})])
    IN  AsSeq([i \in 1..n |-> vals[CHOOSE j \in 1..n : place[j] = i]])

\* u32::leading_zeros
leading_zeros(v) ==
    IF \A i \in 1..32 : v[i] = 0 THEN 32
    ELSE (CHOOSE i \in 1..32 : v[i] = 1 /\ \A j \in 1..(i - 1) : v[j] = 0) - 1

\* ((percentile / 100.0) * (len as f64)).round() as usize, then
\* min(percentile_index, len - 1).  The cast of a negative number, and of
\* zero, is 0.
percentile_index(p, len) ==
    IF p <= 0 THEN 0
    ELSE F64RoundMin(F64MulInt(F64Div(p, 100), len), len - 1)

estimate_optimal_k(vals, p) ==
    IF vals = <<>> THEN 0
    ELSE LET sorted_values == sort_unstable(vals)
             value_at_percentile ==
                 sorted_values[percentile_index(p, Len(sorted_values)) + 1]
         IN  (32 - leading_zeros(value_at_percentile)) % 256

\* The match of create_rice_coder: a coder for k in 0..31, a panic otherwise.
create_rice_coder(k) ==
    IF k \in 0..31 THEN [panic |-> "none", coder |-> k]
    ELSE [panic |-> "Unsupported k value!", coder |-> "none"]

(***************************************************************************)
(* Operations on one coder and its output vector.                          *)
(***************************************************************************)
Writer == [buffer |-> buffer, buffer_len |-> buffer_len, output |-> output,
           max_pending |-> max_pending]

SetWriter(s) ==
    /\ buffer' = s.buffer
    /\ buffer_len' = s.buffer_len
    /\ output' = s.output
    /\ max_pending' = s.max_pending

\* coder.encode_vals(vals, &mut output): assert!(values.len() < 256) first.
EncodeVals(vals) ==
    /\ panic = "none"
    /\ op' = "encode_vals"
    /\ prev_op' = op
    /\ values' = vals
    /\ ops' = ops + 1
    /\ batches' = batches + 1
    /\ IF Len(vals) < CountLimit
       THEN SetWriter(encode_vals(Writer, vals, K)) /\ panic' = panic
       ELSE /\ panic' = "assertion failed: values.len() < 256"
            /\ UNCHANGED <<buffer, buffer_len, output, max_pending>>
    /\ UNCHANGED <<K, input, decoded, est_vars>>

\* coder.encode(value, &mut output)
Encode(value) ==
    /\ panic = "none"
    /\ op' = "encode"
    /\ prev_op' = op
    /\ values' = <<value>>
    /\ ops' = ops + 1
    /\ SetWriter(encode(Writer, value, K))
    /\ UNCHANGED <<K, batches, input, decoded, panic, est_vars>>

\* coder.finalize(&mut output)
Finalize ==
    /\ panic = "none"
    /\ op' = "finalize"
    /\ prev_op' = op
    /\ ops' = ops + 1
    /\ SetWriter(finalize(Writer))
    /\ UNCHANGED <<K, batches, values, input, decoded, panic, est_vars>>

\* RiceCoder::<K>::decode(inp)
Decode(inp) ==
    /\ panic = "none"
    /\ LET r == decode(inp, K)
       IN  /\ decoded' = r.results
           /\ panic' = r.panic
    /\ op' = "decode"
    /\ prev_op' = op
    /\ input' = inp
    /\ UNCHANGED <<K, values, coder_vars, est_vars>>

\* let k = estimate_optimal_k(values, p)
EstimateK(p) ==
    /\ panic = "none"
    /\ op' = "estimate_optimal_k"
    /\ prev_op' = op
    /\ prev_estimate' = estimate
    /\ estimate' = <<[percentile |-> p,
                      index |-> IF values = <<>> THEN 0
                                ELSE percentile_index(p, Len(values)),
                      k |-> estimate_optimal_k(values, p)]>>
    /\ coder' = "none"
    /\ UNCHANGED <<K, values, input, decoded, panic, coder_vars>>

\* let coder = create_rice_coder(k)
CreateRiceCoder ==
    /\ panic = "none"
    /\ op = "estimate_optimal_k"
    /\ LET r == create_rice_coder(estimate[1].k)
       IN  /\ coder' = r.coder
           /\ panic' = r.panic
    /\ op' = "create_rice_coder"
    /\ prev_op' = op
    /\ UNCHANGED <<K, values, input, decoded, coder_vars, estimate, prev_estimate>>

(***************************************************************************)
(* Inputs.                                                                 *)
(***************************************************************************)
MaxVals == 2
MaxRaw == 3
MaxOps == 3

Ks == {0, 1, 3, 8, 26, 27, 31}
Quotients == {0, 1, 4, 31, 33}
RawBytes == {0, 1, 2, 128, 255}

SeqsUpTo(S, n) == UNION {[1..m -> S] : m \in 0..n}

\* The u32 with quotient q and the k remainder bits rem.
MkValue(q, rem, k) == BitsOf(q, 32 - k) \o rem

ValuesFor(k) ==
    {MkValue(q, rem, k) :
        q \in {x \in Quotients : k <= 1 \/ x < Pow2(32 - k)},
        rem \in {Zeros(k), Ones(k)}}

TestVector == <<U32(37), U32(12), U32(5), U32(150), U32(255), U32(0), U32(10)>>

Batches(k) ==
    SeqsUpTo(ValuesFor(k), MaxVals) \cup (IF k = 3 THEN {TestVector} ELSE {})

RawInputs == SeqsUpTo(RawBytes, MaxRaw)

NoEstimate ==
    /\ estimate = <<>>
    /\ prev_estimate = <<>>
    /\ coder = "none"

NewCoder ==
    /\ buffer = Zero64
    /\ buffer_len = 0
    /\ max_pending = 0
    /\ output = <<>>
    /\ input = <<>>
    /\ decoded = <<>>
    /\ op = "new"
    /\ prev_op = "none"
    /\ panic = "none"
    /\ ops = 0
    /\ batches = 0

(***************************************************************************)
(* Spec: a fresh coder encodes one batch into an empty output, and decode  *)
(* reads that output, whole or cut short, or bytes received from elsewhere.*)
(***************************************************************************)
Init ==
    /\ K \in Ks
    /\ values = <<>>
    /\ NewCoder
    /\ NoEstimate

EncodeBatch == op = "new" /\ \E vals \in Batches(K) : EncodeVals(vals)

DecodeOutput ==
    op = "encode_vals" /\ \E n \in 1..Len(output) : Decode(SubSeq(output, 1, n))

DecodeReceived == op = "new" /\ \E inp \in RawInputs : Decode(inp)

Next == EncodeBatch \/ DecodeOutput \/ DecodeReceived

Spec == Init /\ [][Next]_vars

(***************************************************************************)
(* SpecCoder: the life of one coder.  The caller encodes single values and *)
(* finalizes in any order, and encodes one batch at some point, all on the *)
(* same coder and output vector, until a panic or MaxOps operations.       *)
(***************************************************************************)
CoderKs == {0, 3, 26}
CoderQuotients == {4, 31}

CoderValues(k) == {MkValue(q, Ones(k), k) : q \in CoderQuotients}

LongBatch(n) == AsSeq([i \in 1..n |-> U32(1)])

FrameBatches(k) ==
    {<<>>} \cup {<<v>> : v \in CoderValues(k)}
           \cup {LongBatch(n) : n \in {CountLimit - 1, CountLimit, CountLimit + 1}}

InitCoder ==
    /\ K \in CoderKs
    /\ values = <<>>
    /\ NewCoder
    /\ NoEstimate

CallEncode == ops < MaxOps /\ \E v \in CoderValues(K) : Encode(v)

CallFinalize == ops < MaxOps /\ Finalize

CallEncodeVals ==
    /\ ops < MaxOps
    /\ batches = 0
    /\ \E vals \in FrameBatches(K) : EncodeVals(vals)

NextCoder == CallEncode \/ CallFinalize \/ CallEncodeVals

SpecCoder == InitCoder /\ [][NextCoder]_vars

(***************************************************************************)
(* SpecEst: the caller estimates k for one slice of values at one          *)
(* percentile after another and creates a coder for each estimate.         *)
(***************************************************************************)
MaxEstLen == 2

EstValues == {U32(0), U32(5), <<1>> \o Zeros(31)}
Percentiles == {-1, 0, 50, 58, 90, 100, 101}

Run(n) == AsSeq([i \in 1..n |-> U32(i)])
Descending(n) == AsSeq([i \in 1..n |-> U32(n + 1 - i)])

EstInputs ==
    SeqsUpTo(EstValues, MaxEstLen) \cup {Run(8), Descending(8), Descending(25)}

InitEst ==
    /\ K = 0
    /\ values \in EstInputs
    /\ NewCoder
    /\ NoEstimate

CallEstimate == \E p \in Percentiles : EstimateK(p)

NextEst == CallEstimate \/ CreateRiceCoder

SpecEst == InitEst /\ [][NextEst]_vars

(***************************************************************************)
(* The wire format as the specification states it, used to state claims.   *)
(***************************************************************************)
AccumulatorWidth == 64

\* quotient one-bits, one zero-bit, the k remainder bits.
Codeword(v, k) ==
    Ones(ToNat(SubSeq(v, 1, 32 - k))) \o <<0>> \o SubSeq(v, 33 - k, 32)

RECURSIVE BitString(_, _)
BitString(vals, k) ==
    IF vals = <<>> THEN <<>>
    ELSE Codeword(Head(vals), k) \o BitString(Tail(vals), k)

PadToByte(bits) == bits \o Zeros((8 - (Len(bits) % 8)) % 8)

Pack(bits) ==
    AsSeq([i \in 1..(Len(bits) \div 8) |-> ToNat(SubSeq(bits, 8 * i - 7, 8 * i))])

WireFormat(vals, k) == <<Len(vals)>> \o Pack(PadToByte(BitString(vals, k)))

\* The leading values whose codewords fit in the first nbits bits.
RECURSIVE WholeCodewords(_, _, _)
WholeCodewords(vals, nbits, k) ==
    IF vals = <<>> \/ Len(Codeword(Head(vals), k)) > nbits THEN <<>>
    ELSE <<Head(vals)>>
         \o WholeCodewords(Tail(vals), nbits - Len(Codeword(Head(vals), k)), k)

\* C1: decoding the bytes encode_vals wrote for a batch, with the same k,
\* returns the batch.
RoundTrip ==
    (op = "decode" /\ ops = 1 /\ input = output)
        => (panic = "none" /\ decoded = values)

\* C2: decode returns for every input byte sequence, the empty one included,
\* without panicking.
DecodeTotal == op = "decode" => panic = "none"

\* C3: decoding an encode_vals output cut short after any number of bytes
\* (the count byte kept) returns exactly the leading values whose codewords
\* lie completely inside the kept bytes.
TruncationTolerance ==
    (op = "decode" /\ ops = 1)
        => /\ panic = "none"
           /\ decoded = WholeCodewords(values, 8 * (Len(input) - 1), K)

\* C7: at every call of write_bits_to_buffer the pending bit count plus the
\* bits written is at most the width of the accumulator.
NoAccumulatorOverflow == max_pending <= AccumulatorWidth

\* C8: the bytes encode_vals appends on a fresh coder are the count byte and
\* the MSB-first packing of the codewords, zero-padded to a byte boundary.
WireFormatExact ==
    (op = "encode_vals" /\ panic = "none") => output = WireFormat(values, K)

(***************************************************************************)
(* The estimator as the specification states it.                           *)
(***************************************************************************)
\* round(p / 100 * len) over the rationals, halves rounded up, clamped.
ExactIndex(p, len) == Min((2 * p * len + 100) \div 200, len - 1)

\* The element at 0-based index i of vals in ascending order.
OrderStatistic(vals, i) ==
    LET n == Len(vals)
        below(j) == Cardinality({l \in 1..n : LtU32(Halves(vals[l]), Halves(vals[j]))})
        upto(j) == Cardinality({l \in 1..n : ~LtU32(Halves(vals[j]), Halves(vals[l]))})
    IN  vals[CHOOSE j \in 1..n : below(j) <= i /\ i < upto(j)]

\* 0 for 0, otherwise floor(log2(v)) + 1.
BitLength(v) == Cardinality({i \in 1..32 : \E j \in 1..i : v[j] = 1})

\* C4: encode_vals of at most 255 values succeeds and appends the length of
\* the batch as its first byte; encode_vals of 256 or more values panics and
\* leaves the output and the bit buffer as they were.
CountPrefixBoundary ==
    [][op' = "encode_vals" =>
         IF Len(values') <= 255
         THEN /\ panic' = "none"
              /\ Len(output') > Len(output)
              /\ SubSeq(output', 1, Len(output)) = output
              /\ output'[Len(output) + 1] = Len(values')
         ELSE /\ panic' # "none"
              /\ output' = output
              /\ buffer' = buffer
              /\ buffer_len' = buffer_len]_vars

\* A batch of exactly 256 values was refused by a coder holding pending bits
\* and an output holding bytes.
CountPrefixBoundaryReached ==
    /\ op = "encode_vals"
    /\ panic # "none"
    /\ Len(values) = 256
    /\ buffer_len > 0
    /\ Len(output) > 0

\* C5: for fixed values, the estimate at a percentile is at most the estimate
\* at any larger percentile.
MonotonicPercentile ==
    (/\ prev_estimate # <<>>
     /\ estimate # <<>>
     /\ prev_estimate[1].percentile <= estimate[1].percentile)
        => prev_estimate[1].k <= estimate[1].k

\* Two estimates over [1..8], the second at a larger percentile and larger.
MonotonicPercentileReached ==
    /\ values = Run(8)
    /\ prev_estimate # <<>>
    /\ estimate # <<>>
    /\ prev_estimate[1].percentile < estimate[1].percentile
    /\ prev_estimate[1].k < estimate[1].k

\* C6: the estimate is 0 for empty input and otherwise, for a percentile in
\* [0, 100], the bit length of sorted[min(round(p / 100 * len), len - 1)],
\* halves rounded up; [1..8] gives 3 at 50 and 4 at 90.
EstimatorResultExact ==
    (estimate # <<>> /\ estimate[1].percentile \in 0..100)
        => /\ estimate[1].k =
                IF values = <<>> THEN 0
                ELSE BitLength(OrderStatistic(values,
                         ExactIndex(estimate[1].percentile, Len(values))))
           /\ (values = Run(8) /\ estimate[1].percentile = 50) => estimate[1].k = 3
           /\ (values = Run(8) /\ estimate[1].percentile = 90) => estimate[1].k = 4

\* C9: finalize leaves no pending bit, and a finalize that follows a finalize
\* appends nothing and leaves the coder as it was.
FinalizeIdempotent ==
    [][op' = "finalize" =>
         /\ buffer_len' = 0
         /\ buffer' = Zero64
         /\ op = "finalize" =>
                /\ output' = output
                /\ buffer' = buffer
                /\ buffer_len' = buffer_len]_vars

\* encode, finalize, finalize on one coder.
FinalizeIdempotentReached ==
    /\ op = "finalize"
    /\ prev_op = "finalize"
    /\ ops = 3
    /\ Len(output) > 0
    /\ max_pending > 0

\* C10: every estimate lies in 0..31 and create_rice_coder never panics on it.
EstimatorProposesSupportedK ==
    /\ estimate # <<>> => estimate[1].k \in 0..31
    /\ panic # "Unsupported k value!"

====
